---- MODULE Spec2Model ----
(***************************************************************************)
(* Model of the kernel-side data plane of runtime-enforcer (src/bpf):      *)
(* the cgroup tracker, the path resolver, the length-bucketed string       *)
(* matcher, the execve emitter and the enforcement gate.                   *)
(*                                                                         *)
(* Bytes are integers 0..255.  C arrays are sequences; C index i is        *)
(* element i + 1.  A BPF hash map is a function whose DOMAIN is the set of *)
(* present keys.  Pointers into the kernel's dentry/mount graph are small  *)
(* integers, 0 is NULL.                                                    *)
(***************************************************************************)
EXTENDS Integers, Sequences, FiniteSets, TLC

(***************************************************************************)
(* Program constants.                                                      *)
(***************************************************************************)
MAX_PATH_LEN == 4096
MAX_COMPONENT_LEN == 256
FALLBACK_PATH_ITERATIONS == 512
PATH_ITERATIONS == 2048
STRING_MAPS_KEY_INC_SIZE == 24
STRING_MAPS_SIZE_0 == 1 * STRING_MAPS_KEY_INC_SIZE
STRING_MAPS_SIZE_1 == 2 * STRING_MAPS_KEY_INC_SIZE
STRING_MAPS_SIZE_2 == 3 * STRING_MAPS_KEY_INC_SIZE
STRING_MAPS_SIZE_3 == 4 * STRING_MAPS_KEY_INC_SIZE
STRING_MAPS_SIZE_4 == 5 * STRING_MAPS_KEY_INC_SIZE
STRING_MAPS_SIZE_5 == 6 * STRING_MAPS_KEY_INC_SIZE
STRING_MAPS_SIZE_6 == 256
STRING_MAPS_SIZE_7 == 512
STRING_MAPS_SIZE_8 == 1024
STRING_MAPS_SIZE_9 == 2048
STRING_MAPS_SIZE_10 == 4096
POLICY_MODE_MONITOR == 1
POLICY_MODE_PROTECT == 2
EPERM == 1
\* sizeof of the fields of struct process_evt that precede path, as the
\* literal 19 of the two bpf_ringbuf_output calls
EVT_HEADER_SIZE == 19

KERNEL_VERSION(a, b, c) == a * 65536 + b * 256 + c

\* The hosts the program is loaded on: one without large hash keys, one with
\* them but without numeric iterators, one with both.
KernelVersions ==
    {KERNEL_VERSION(5, 10, 0), KERNEL_VERSION(5, 11, 0), KERNEL_VERSION(6, 4, 0)}

(***************************************************************************)
(* Bytes and buffers.                                                      *)
(***************************************************************************)
Rep(c, n) == [i \in 1..n |-> c]

Max(a, b) == IF a >= b THEN a ELSE b

\* x & (2^k - 1) on a two's complement int is x modulo 2^k
SAFE_PATH_LEN(x) == x % MAX_PATH_LEN
SAFE_PATH_ACCESS(x) == x % (MAX_PATH_LEN * 2)
SAFE_COMPONENT_ACCESS(x) == x % MAX_COMPONENT_LEN

\* " (deleted)" without its terminator
DELETED_STRING == <<32, 40, 100, 101, 108, 101, 116, 101, 100, 41>>

SLASH == 47

\* memcpy / bpf_probe_read_kernel of bytes to &buf[idx]
WriteBytes(buf, idx, bytes) ==
    SubSeq(buf, 1, idx) \o bytes \o SubSeq(buf, idx + Len(bytes) + 1, Len(buf))

\* the n bytes at &buf[idx]
ReadBytes(buf, idx, n) == SubSeq(buf, idx + 1, idx + n)

\* a per-CPU array element starts zeroed
ZeroPath == Rep(0, MAX_PATH_LEN * 4)

(***************************************************************************)
(* The kernel's dentry/mount graph the resolver walks.  A dentry is a      *)
(* number; d_parent, d_name and the d_hash linkage are its fields.         *)
(*   1            "/" of the root filesystem                               *)
(*   2, 3         /bin/ok                                  (7 bytes)       *)
(*   4, 5         /tmp/evil                                (9 bytes)       *)
(*   6            /tmp/gone, unlinked                                      *)
(*   7            /mnt, the mountpoint of mount 2                          *)
(*   8, 9         root of the filesystem of mount 2, and x in it           *)
(*   10           a memfd: its own parent, in the internal mount 3         *)
(*   11, 12       a 124-byte directory and a file in it    (130 bytes)     *)
(*   13, 14, 15   a 140-byte directory, dd and dde in it   (144, 145)      *)
(*   16, 17, 18   three nested 199-byte names              (600 bytes)     *)
(*   100..199     nested directories with 255-byte names, 100 in "/"       *)
(*   300          a 249-byte name in directory 114         (4090 bytes)    *)
(*   301          abc in directory 115                     (4100 bytes)    *)
(*   302          x in directory 131                       (8194 bytes)    *)
(*   303          a 239-byte name in directory 114, unlinked               *)
(*   400, 401     a and b, each the parent of the other: a cycle           *)
(***************************************************************************)
ChainDirs == 100..199

d_parent(d) ==
    CASE d = 1 -> 1
      [] d = 2 -> 1
      [] d = 3 -> 2
      [] d = 4 -> 1
      [] d = 5 -> 4
      [] d = 6 -> 4
      [] d = 7 -> 1
      [] d = 8 -> 8
      [] d = 9 -> 8
      [] d = 10 -> 10
      [] d = 11 -> 1
      [] d = 12 -> 11
      [] d = 13 -> 1
      [] d = 14 -> 13
      [] d = 15 -> 13
      [] d = 16 -> 1
      [] d = 17 -> 16
      [] d = 18 -> 17
      [] d = 100 -> 1
      [] d \in ChainDirs \ {100} -> d - 1
      [] d = 300 -> 114
      [] d = 301 -> 115
      [] d = 302 -> 131
      [] d = 303 -> 114
      [] d = 400 -> 401
      [] d = 401 -> 400
      [] OTHER -> 0

d_name(d) ==
    CASE d = 1 -> <<47>>
      [] d = 2 -> <<98, 105, 110>>
      [] d = 3 -> <<111, 107>>
      [] d = 4 -> <<116, 109, 112>>
      [] d = 5 -> <<101, 118, 105, 108>>
      [] d = 6 -> <<103, 111, 110, 101>>
      [] d = 7 -> <<109, 110, 116>>
      [] d = 8 -> <<47>>
      [] d = 9 -> <<120>>
      [] d = 10 -> <<109, 101, 109, 102, 100, 58, 97>>
      [] d = 11 -> Rep(97, 124)
      [] d = 12 -> Rep(98, 4)
      [] d = 13 -> Rep(99, 140)
      [] d = 14 -> <<100, 100>>
      [] d = 15 -> <<100, 100, 101>>
      [] d \in {16, 17, 18} -> Rep(101, 199)
      [] d \in ChainDirs -> Rep(102, 255)
      [] d = 300 -> Rep(103, 249)
      [] d = 301 -> <<97, 98, 99>>
      [] d = 302 -> <<120>>
      [] d = 303 -> Rep(104, 239)
      [] d = 400 -> <<97>>
      [] d = 401 -> <<98>>
      [] OTHER -> <<>>

\* d_hash.pprev == NULL
d_unhashed(d) == d \in {6, 10, 303}

IS_ROOT(dentry) == dentry = d_parent(dentry)

d_unlinked(dentry) == d_unhashed(dentry) /\ ~IS_ROOT(dentry)

\* struct mount: 1 the root filesystem, 2 mounted on /mnt, 3 the kernel's
\* internal mount of memfd files.  A vfsmount is identified with its mount
\* (container_of).
mnt_root(m) == CASE m = 1 -> 1 [] m = 2 -> 8 [] m = 3 -> 0 [] OTHER -> 0

mnt_parent(m) == CASE m = 1 -> 1 [] m = 2 -> 1 [] m = 3 -> 3 [] OTHER -> 0

mnt_mountpoint(m) == CASE m = 1 -> 1 [] m = 2 -> 7 [] m = 3 -> 0 [] OTHER -> 0

\* bprm->file: 0 is NULL, otherwise f_path is (dentry, mount) of the file
f_dentry(file) == file

f_mnt(file) == CASE file \in {8, 9} -> 2 [] file = 10 -> 3 [] OTHER -> 1

\* task->fs->root of the tasks of the model: the root filesystem
FsRoot == [dentry |-> 1, mnt |-> 1]

(***************************************************************************)
(* The path resolver (d_path_resolution.h).                                *)
(***************************************************************************)
\* Bind(v, Op) is Op(v) with v evaluated once: a local variable of the code
Bind(v, Op(_)) == CHOOSE out \in {Op(x) : x \in {v}} : TRUE

\* copy_name: the new *buflen and the buffer after the '/' and the name.
\* The result of the read of dentry->d_name is not checked: when it fails
\* (fault = "name") d_name stays zeroed, so len is 0 and no byte is read.
copy_name(buf, buflen, dentry, fault) ==
    Bind(IF fault = "name" THEN <<>> ELSE d_name(dentry),
         LAMBDA name :
            [buflen |-> buflen - (Len(name) + 1),
             buf |-> WriteBytes(
                        WriteBytes(buf, SAFE_PATH_ACCESS(buflen - (Len(name) + 1)),
                                   <<SLASH>>),
                        SAFE_PATH_ACCESS(buflen - (Len(name) + 1) + 1),
                        SubSeq(name, 1, SAFE_COMPONENT_ACCESS(Len(name))))])

\* path_read: one step of the walk; ret = 1 stops the loop
path_read(data, fault) ==
    IF data.dentry = data.root_dentry /\ data.vfsmnt = data.root_mnt
    THEN [ret |-> 1, data |-> [data EXCEPT !.resolved = TRUE]]
    ELSE IF data.dentry = mnt_root(data.vfsmnt) \/ IS_ROOT(data.dentry)
    THEN LET m_parent == mnt_parent(data.mnt)
         IN  IF data.mnt = m_parent
             THEN [ret |-> 1, data |-> [data EXCEPT !.resolved = TRUE]]
             ELSE [ret |-> 0,
                   data |-> [data EXCEPT !.dentry = mnt_mountpoint(data.mnt),
                                         !.mnt = m_parent,
                                         !.vfsmnt = m_parent]]
    ELSE Bind(copy_name(data.bptr, data.curr_off, data.dentry, fault),
              LAMBDA c :
                 [ret |-> 0,
                  data |-> [data EXCEPT !.bptr = c.buf,
                                        !.curr_off = c.buflen,
                                        !.dentry = d_parent(data.dentry)]])

\* the loop of bpf_d_path_approx: iterations i .. n - 1, each a call of
\* path_read unless an earlier call returned 1 (which is when it set
\* resolved).  The iterations are composed by halves; iter counts the
\* calls of path_read.
RECURSIVE path_loop(_, _, _, _)
path_loop(data, i, n, fault) ==
    IF i >= n \/ data.resolved
    THEN data
    ELSE IF n - i = 1
    THEN [path_read(data, fault).data EXCEPT !.iter = @ + 1]
    ELSE Bind(path_loop(data, i, (i + n) \div 2, fault),
              LAMBDA half : path_loop(half, (i + n) \div 2, n, fault))

\* a host on which every kernel has numeric iterators
bpf_iter_num_new_always(kver) == TRUE

\* bpf_ksym_exists(bpf_iter_num_new): numeric iterators come with kernel 6.4
bpf_iter_num_new_exists(kver) == kver >= KERNEL_VERSION(6, 4, 0)

\* bpf_d_path_approx: ret is the returned offset (or -1), buf the scratch
\* region after the call, iter the number of steps the walk took.  fault names the kernel read that fails in this
\* call: "dentry" the checked read of path->dentry, "name" the unchecked
\* reads of d_name, "none" no read.
bpf_d_path_approx(file, buf, root, kver, fault) ==
    IF fault = "dentry"
    THEN [ret |-> -1, buf |-> buf, iter |-> 0]
    ELSE LET dentry == f_dentry(file)
             unl == d_unlinked(dentry)
             off == IF unl THEN MAX_PATH_LEN * 2 - Len(DELETED_STRING)
                           ELSE MAX_PATH_LEN * 2
             buf1 == IF unl THEN WriteBytes(buf, SAFE_PATH_ACCESS(off), DELETED_STRING)
                            ELSE buf
             data0 == [root_dentry |-> root.dentry,
                       root_mnt |-> root.mnt,
                       dentry |-> dentry,
                       vfsmnt |-> f_mnt(file),
                       mnt |-> f_mnt(file),
                       bptr |-> buf1,
                       curr_off |-> off,
                       resolved |-> FALSE,
                       iter |-> 0]
         IN  Bind(path_loop(data0, 0,
                            IF bpf_iter_num_new_exists(kver)
                            THEN PATH_ITERATIONS
                            ELSE FALLBACK_PATH_ITERATIONS,
                            fault),
                  LAMBDA data1 :
                     Bind(IF data1.curr_off = MAX_PATH_LEN * 2
                          THEN copy_name(data1.bptr, data1.curr_off, data1.dentry, fault)
                          ELSE [buflen |-> data1.curr_off, buf |-> data1.bptr],
                          LAMBDA fin :
                             [ret |-> IF data1.resolved THEN fin.buflen ELSE -1,
                              buf |-> fin.buf,
                              iter |-> data1.iter]))

(***************************************************************************)
(* BPF maps.                                                               *)
(***************************************************************************)
EmptyMap == [k \in {} |-> 0]

\* bpf_map_lookup_elem returns a pointer to the value, or NULL
MapHas(m, k) == k \in DOMAIN m

\* an update that makes room in a full map by dropping its smallest key, as
\* an LRU hash map evicts an entry
bpf_map_update_elem_evict(m, k, v, cap) ==
    IF k \notin DOMAIN m /\ Cardinality(DOMAIN m) >= cap
    THEN LET victim == CHOOSE x \in DOMAIN m : \A y \in DOMAIN m : x <= y
         IN  [x \in (DOMAIN m \ {victim}) \cup {k} |-> IF x = k THEN v ELSE m[x]]
    ELSE [x \in DOMAIN m \cup {k} |-> IF x = k THEN v ELSE m[x]]

\* bpf_map_update_elem(BPF_ANY) on a hash map of max_entries cap: a new key
\* is refused when the map is full, a present key is overwritten
bpf_map_update_elem(m, k, v, cap) ==
    IF k \notin DOMAIN m /\ Cardinality(DOMAIN m) >= cap
    THEN m
    ELSE [x \in DOMAIN m \cup {k} |-> IF x = k THEN v ELSE m[x]]

\* a delete that drops every entry sharing the tracker of the key
bpf_map_delete_tracker(m, k) ==
    [x \in {y \in DOMAIN m : k \notin DOMAIN m \/ m[y] # m[k]} |-> m[x]]

\* a delete that leaves the map as it is
bpf_map_delete_none(m, k) == m

bpf_map_delete_elem(m, k) == [x \in DOMAIN m \ {k} |-> m[x]]

(***************************************************************************)
(* The length-bucketed string matcher (main.c, string_maps.h).             *)
(***************************************************************************)
\* the key width of pol_str_maps_<index>
StringMapsSize(index) ==
    CASE index = 0 -> STRING_MAPS_SIZE_0
      [] index = 1 -> STRING_MAPS_SIZE_1
      [] index = 2 -> STRING_MAPS_SIZE_2
      [] index = 3 -> STRING_MAPS_SIZE_3
      [] index = 4 -> STRING_MAPS_SIZE_4
      [] index = 5 -> STRING_MAPS_SIZE_5
      [] index = 6 -> STRING_MAPS_SIZE_6
      [] index = 7 -> STRING_MAPS_SIZE_7
      [] index = 8 -> STRING_MAPS_SIZE_8
      [] index = 9 -> STRING_MAPS_SIZE_9
      [] index = 10 -> STRING_MAPS_SIZE_10

StringMapIndexes == 0..10

string_padded_len(len, kver) ==
    IF len < STRING_MAPS_SIZE_5
    THEN IF len % STRING_MAPS_KEY_INC_SIZE # 0
         THEN ((len \div STRING_MAPS_KEY_INC_SIZE) + 1) * STRING_MAPS_KEY_INC_SIZE
         ELSE len
    ELSE IF len <= STRING_MAPS_SIZE_6 THEN STRING_MAPS_SIZE_6
    ELSE IF kver < KERNEL_VERSION(5, 11, 0) THEN STRING_MAPS_SIZE_7
    ELSE IF len <= STRING_MAPS_SIZE_7 THEN STRING_MAPS_SIZE_7
    ELSE IF len <= STRING_MAPS_SIZE_8 THEN STRING_MAPS_SIZE_8
    ELSE IF len <= STRING_MAPS_SIZE_9 THEN STRING_MAPS_SIZE_9
    ELSE STRING_MAPS_SIZE_10

string_map_index(padded_len, kver) ==
    IF padded_len < STRING_MAPS_SIZE_5
    THEN (padded_len \div STRING_MAPS_KEY_INC_SIZE) - 1
    ELSE IF kver < KERNEL_VERSION(5, 11, 0)
    THEN IF padded_len = STRING_MAPS_SIZE_6 THEN 6 ELSE 7
    ELSE CASE padded_len = STRING_MAPS_SIZE_6 -> 6
           [] padded_len = STRING_MAPS_SIZE_7 -> 7
           [] padded_len = STRING_MAPS_SIZE_8 -> 8
           [] padded_len = STRING_MAPS_SIZE_9 -> 9
           [] OTHER -> 10

\* get_policy_string_map: the outer table the switch dispatches to, looked
\* up with the policy id.  found = FALSE is the NULL result.
get_policy_string_map(maps, index, policy_id) ==
    IF index \in StringMapIndexes /\ MapHas(maps[index], policy_id)
    THEN [found |-> TRUE, keys |-> maps[index][policy_id],
          key_size |-> StringMapsSize(index)]
    ELSE [found |-> FALSE, keys |-> {}, key_size |-> 0]

(***************************************************************************)
(* State.                                                                  *)
(***************************************************************************)
VARIABLES
    kver,                     \* LINUX_KERNEL_VERSION of the host
    cgroups,                  \* cgroup id -> "unborn" | "live" | "released"
    cgtracker_map,            \* cgroup id -> tracker cgroup id
    cg_to_policy_map,         \* tracker cgroup id -> policy id
    policy_mode_map,          \* policy id -> mode
    pol_str_maps,             \* index -> (policy id -> set of padded keys)
    process_evt_storage_map,  \* cpu -> struct process_evt
    ringbuf_monitoring,       \* records published and not yet consumed
    ringbuf_execve,           \* records published and not yet consumed
    inherited,                \* cgroup id -> what its mkdir copied (history)
    obs,                      \* the last hook invocation (history)
    suspended,                \* the gate invocation that was preempted, if any
    mkdir_pending             \* the mkdir handler between its lookup and its update

vars == <<kver, cgroups, cgtracker_map, cg_to_policy_map, policy_mode_map,
          pol_str_maps, process_evt_storage_map, ringbuf_monitoring,
          ringbuf_execve, inherited, obs, suspended, mkdir_pending>>

(***************************************************************************)
(* Bounds of the model.                                                    *)
(***************************************************************************)
\* cgroup ids 1..NumCgroups; cgroup c > 1 is a child of cgroup c \div 2
NumCgroups == 5
\* TRACKER_MAP_MAX_ENTRIES, scaled to the cgroups of the model
TrackerMapCapacity == 3
\* BUF_DIM, in records
RingCapacity == 1

CgIds == 1..NumCgroups
Policies == {7, 8}
Cpus == {0}

(***************************************************************************)
(* Cgroup identity and tracker (main.c).                                   *)
(***************************************************************************)
\* the cgroup tree: cgroup 1 is the root, the parent of c > 1 is c \div 2
CgParent(c) == c \div 2

\* cgrp->level: the root of the hierarchy is cgroup 1, at level 0
RECURSIVE get_cgroup_level(_)
get_cgroup_level(c) == IF c <= 1 THEN 0 ELSE 1 + get_cgroup_level(CgParent(c))

\* ancestors[level] instead of ancestors[level - 1]: the cgroup itself
cgroup_get_own_id(c) == IF get_cgroup_level(c) <= 0 THEN 0 ELSE c

\* cgroup_get_parent_id: ancestors[level - 1]->kn->id, 0 at level 0
cgroup_get_parent_id(c) == IF get_cgroup_level(c) <= 0 THEN 0 ELSE CgParent(c)

\* the tracker id with the cgroup's own id as the fallback
cgrp_get_tracker_id_or_self(map, cgid) == IF MapHas(map, cgid) THEN map[cgid] ELSE cgid

cgrp_get_tracker_id(map, cgid) == IF MapHas(map, cgid) THEN map[cgid] ELSE 0

\* the cgroup id of the task without the tracker lookup
get_cgroup_id_from_curr_task(map, cgroupid) == cgroupid

\* cgroupid is what tg_get_current_cgroup_id returned: 0 on failure
get_tracker_id_from_curr_task(map, cgroupid) ==
    IF cgroupid = 0
    THEN 0
    ELSE LET trackerid == cgrp_get_tracker_id(map, cgroupid)
         IN  IF trackerid # 0 THEN trackerid ELSE cgroupid

(***************************************************************************)
(* The scratch event and the ring buffers (main.c).                        *)
(***************************************************************************)
ZeroEvt == [cgid |-> 0, cg_tracker_id |-> 0, path_len |-> 0, mode |-> 0,
            path |-> ZeroPath]

\* the first size bytes of the event: the header fields and the path bytes
\* that follow them
Record(evt, size) ==
    [size |-> size,
     cgid |-> evt.cgid,
     cg_tracker_id |-> evt.cg_tracker_id,
     path_len |-> evt.path_len,
     mode |-> evt.mode,
     path |-> SubSeq(evt.path, 1, Max(0, size - EVT_HEADER_SIZE))]

\* a ring buffer that overwrites its oldest record when it is full
bpf_ringbuf_output_overwrite(ring, evt, size) ==
    IF ring < RingCapacity
    THEN [err |-> 0, ring |-> ring + 1, pub |-> <<Record(evt, size)>>]
    ELSE [err |-> 0, ring |-> ring, pub |-> <<Record(evt, size)>>]

\* bpf_ringbuf_output: the record is appended unless the buffer is full
bpf_ringbuf_output(ring, evt, size) ==
    IF ring < RingCapacity
    THEN [err |-> 0, ring |-> ring + 1, pub |-> <<Record(evt, size)>>]
    ELSE [err |-> -1, ring |-> ring, pub |-> <<>>]

\* the size argument 19 + SAFE_PATH_LEN(evt->path_len): the macro has no
\* outer parentheses and + binds tighter than &
RingbufOutputSize(path_len) == (EVT_HEADER_SIZE + path_len) % MAX_PATH_LEN

(***************************************************************************)
(* The enforcement gate (main.c, enforce_cgroup_policy).  EnforceRun is    *)
(* the whole program on one invocation: evt is the CPU's scratch event     *)
(* before, cgid what tg_get_current_cgroup_id returns for the task, file   *)
(* is bprm->file, fault and copy_err make the kernel reads fail.  It       *)
(* yields the scratch event after, the return value, the ring buffer and   *)
(* the records published, and where the program returned (exit).           *)
(***************************************************************************)
GateOut(evt, ret, ring, pub, tid, policy, off, exit) ==
    [evt |-> evt, ret |-> ret, ring |-> ring, pub |-> pub, tid |-> tid,
     policy |-> policy, off |-> off, exit |-> exit]

\* a lookup that falls back to monitor mode when the policy has no mode
policy_mode_or_monitor(modes, policy_id) ==
    IF MapHas(modes, policy_id)
    THEN [found |-> TRUE, mode |-> modes[policy_id]]
    ELSE [found |-> TRUE, mode |-> POLICY_MODE_MONITOR]

\* bpf_map_lookup_elem(&policy_mode_map, policy_id): found = FALSE is NULL
policy_mode_lookup(modes, policy_id) ==
    IF MapHas(modes, policy_id)
    THEN [found |-> TRUE, mode |-> modes[policy_id]]
    ELSE [found |-> FALSE, mode |-> 0]

\* from the lookup of the string map to the return
EnforceMatch(evt, policy_id, current_offset, tid, kv, modes, strs, ring, copy_err) ==
    LET padded_len == string_padded_len(evt.path_len, kv)
        index == string_map_index(padded_len, kv)
        n == SAFE_PATH_LEN(evt.path_len)
        mode == policy_mode_lookup(modes, policy_id)
    IN  IF padded_len = 0
        THEN GateOut(evt, 0, ring, <<>>, tid, policy_id, current_offset, "padded_zero")
        ELSE Bind(get_policy_string_map(strs, index, policy_id),
          LAMBDA string_map :
            IF ~string_map.found
            THEN GateOut(evt, 0, ring, <<>>, tid, policy_id, current_offset,
                         "no_string_map")
            ELSE IF ReadBytes(evt.path, SAFE_PATH_ACCESS(current_offset),
                              string_map.key_size) \in string_map.keys
            THEN GateOut(evt, 0, ring, <<>>, tid, policy_id, current_offset, "match")
            ELSE IF copy_err
            THEN GateOut([evt EXCEPT !.path = WriteBytes(@, 0, Rep(0, n))], 0, ring, <<>>,
                         tid, policy_id, current_offset, "copy_failed")
            ELSE Bind([evt EXCEPT !.path =
                          WriteBytes(@, 0,
                                     ReadBytes(@, SAFE_PATH_ACCESS(current_offset), n))],
              LAMBDA moved :
                IF ~mode.found
                THEN GateOut(moved, 0, ring, <<>>, tid, policy_id, current_offset,
                             "no_mode")
                ELSE Bind(bpf_ringbuf_output(ring, [moved EXCEPT !.mode = mode.mode],
                                             RingbufOutputSize(moved.path_len)),
                  LAMBDA out :
                    IF mode.mode = POLICY_MODE_MONITOR
                    THEN GateOut([moved EXCEPT !.mode = mode.mode], 0, out.ring, out.pub,
                                 tid, policy_id, current_offset, "monitor")
                    ELSE GateOut([moved EXCEPT !.mode = mode.mode], -EPERM, out.ring,
                                 out.pub, tid, policy_id, current_offset, "enforce"))))

\* from the entry to the check of the key width: exit "lookup" stands for
\* the invocation going on to the lookup, with policy_id and current_offset
\* in its registers and the path and path_len in the scratch event
EnforceResolve(evt, cgid, file, fault, kv, tracker, bindings, ring) ==
    LET cg_tracker_id == get_tracker_id_from_curr_task(tracker, cgid)
        policy_id == bindings[cg_tracker_id]
        evt1 == [evt EXCEPT !.cgid = cgid,
                            !.cg_tracker_id = cgrp_get_tracker_id(tracker, cgid)]
    IN  IF cg_tracker_id = 0
        THEN GateOut(evt, 0, ring, <<>>, 0, 0, 0, "no_cgroup")
        ELSE IF ~MapHas(bindings, cg_tracker_id)
        THEN GateOut(evt, 0, ring, <<>>, cg_tracker_id, 0, 0, "no_policy")
        ELSE IF file = 0
        THEN GateOut(evt1, 0, ring, <<>>, cg_tracker_id, policy_id, 0, "no_file")
        ELSE Bind(bpf_d_path_approx(file, evt1.path, FsRoot, kv, fault),
          LAMBDA r :
            IF r.ret <= 0
            THEN GateOut([evt1 EXCEPT !.path = r.buf], 0, ring, <<>>, cg_tracker_id,
                         policy_id, r.ret, "unresolved")
            ELSE IF kv < KERNEL_VERSION(5, 11, 0)
                    /\ MAX_PATH_LEN * 2 - r.ret > STRING_MAPS_SIZE_7
            THEN GateOut([evt1 EXCEPT !.path = r.buf,
                                      !.path_len = MAX_PATH_LEN * 2 - r.ret],
                         0, ring, <<>>, cg_tracker_id, policy_id, r.ret, "too_long")
            ELSE GateOut([evt1 EXCEPT !.path = r.buf,
                                      !.path_len = MAX_PATH_LEN * 2 - r.ret],
                         0, ring, <<>>, cg_tracker_id, policy_id, r.ret, "lookup"))

EnforceRun(evt, cgid, file, fault, copy_err, kv, tracker, bindings, modes, strs, ring) ==
    Bind(EnforceResolve(evt, cgid, file, fault, kv, tracker, bindings, ring),
      LAMBDA pre :
        IF pre.exit = "lookup"
        THEN EnforceMatch(pre.evt, pre.policy, pre.off, pre.tid, kv, modes, strs, ring,
                          copy_err)
        ELSE pre)

(***************************************************************************)
(* The execve emitter (main.c, execve_send).                               *)
(***************************************************************************)
ExecveRun(evt, cgid, file, fault, copy_err, kv, tracker, ring) ==
    LET evt1 == [evt EXCEPT !.cgid = cgid,
                            !.cg_tracker_id = cgrp_get_tracker_id(tracker, cgid),
                            !.mode = 0]
    IN  IF file = 0
        THEN GateOut(evt1, 0, ring, <<>>, 0, 0, 0, "no_file")
        ELSE Bind(bpf_d_path_approx(file, evt1.path, FsRoot, kv, fault),
          LAMBDA r :
            IF r.ret <= 0
            THEN GateOut([evt1 EXCEPT !.path = r.buf], 0, ring, <<>>, 0, 0, r.ret,
                         "unresolved")
            ELSE IF copy_err
            THEN GateOut([evt1 EXCEPT
                             !.path = WriteBytes(r.buf, 0,
                                         Rep(0, SAFE_PATH_LEN(MAX_PATH_LEN * 2 - r.ret))),
                             !.path_len = MAX_PATH_LEN * 2 - r.ret],
                         0, ring, <<>>, 0, 0, r.ret, "copy_failed")
            ELSE Bind([evt1 EXCEPT
                          !.path = WriteBytes(r.buf, 0,
                                      ReadBytes(r.buf, SAFE_PATH_ACCESS(r.ret),
                                                SAFE_PATH_LEN(MAX_PATH_LEN * 2 - r.ret))),
                          !.path_len = MAX_PATH_LEN * 2 - r.ret],
              LAMBDA moved :
                Bind(bpf_ringbuf_output(ring, moved, RingbufOutputSize(moved.path_len)),
                  LAMBDA out :
                    GateOut(moved, 0, out.ring, out.pub, 0, 0, r.ret, "sent"))))

(***************************************************************************)
(* What userspace stores (spec.md, sections 3 and 4.3): the absolute path  *)
(* of a file, zero-padded to the width of the bucket that section 4.3      *)
(* selects for its length.                                                 *)
(***************************************************************************)
RECURSIVE DentryPath(_, _, _)
DentryPath(d, m, root) ==
    IF d = root.dentry /\ m = root.mnt
    THEN <<>>
    ELSE IF d = mnt_root(m) \/ IS_ROOT(d)
    THEN IF mnt_parent(m) = m
         THEN <<>>
         ELSE DentryPath(mnt_mountpoint(m), mnt_parent(m), root)
    ELSE DentryPath(d_parent(d), m, root) \o <<SLASH>> \o d_name(d)

\* the absolute path of a file as an administrator writes it in a policy
PathOf(file) ==
    DentryPath(f_dentry(file), f_mnt(file), FsRoot)
        \o (IF d_unlinked(f_dentry(file)) THEN DELETED_STRING ELSE <<>>)

\* buckets 8..10 do not exist on hosts without large hash keys
StoreIndexes(kv) == IF kv < KERNEL_VERSION(5, 11, 0) THEN 0..7 ELSE 0..10

\* spec.md 4.3, "Bucket selection rule"
StoreIndex(len, kv) ==
    IF len < 144 THEN ((len + 23) \div 24) - 1
    ELSE IF len <= 256 THEN 6
    ELSE IF kv < KERNEL_VERSION(5, 11, 0) THEN 7
    ELSE IF len <= 512 THEN 7
    ELSE IF len <= 1024 THEN 8
    ELSE IF len <= 2048 THEN 9
    ELSE 10

PadTo(str, width) == str \o Rep(0, width - Len(str))

\* the inner table of bucket b of one policy for an allowlist given as a
\* set of files
StoredKeys(files, b, kv) ==
    {PadTo(PathOf(f), StringMapsSize(b)) :
        f \in {g \in files : StoreIndex(Len(PathOf(g)), kv) = b}}

(***************************************************************************)
(* Hooks.                                                                  *)
(***************************************************************************)
\* the exits of the gate that lie after the lookup in the string map
LookupExits == {"match", "copy_failed", "no_mode", "monitor", "enforce"}

\* what one invocation did: its inputs, its outcome and, when the gate got to
\* the lookup, the length, padded length, table and key width it used
Obs(hook, cpu, cgid, file, fault, copy_err, g, mon, exe) ==
    [hook |-> hook, cpu |-> cpu, cgid |-> cgid, file |-> file, fault |-> fault,
     copy_err |-> copy_err, ret |-> g.ret, tid |-> g.tid, policy |-> g.policy,
     off |-> g.off, exit |-> g.exit, mon |-> mon, exe |-> exe,
     len |-> IF g.exit \in LookupExits THEN g.evt.path_len ELSE 0,
     padded_len |-> IF g.exit \in LookupExits
                    THEN string_padded_len(g.evt.path_len, kver) ELSE 0,
     index |-> IF g.exit \in LookupExits
               THEN string_map_index(string_padded_len(g.evt.path_len, kver), kver)
               ELSE 0,
     key_size |-> IF g.exit \in LookupExits
                  THEN StringMapsSize(string_map_index(
                           string_padded_len(g.evt.path_len, kver), kver))
                  ELSE 0]

NoObs ==
    [hook |-> "none", cpu |-> 0, cgid |-> 0, file |-> 0, fault |-> "none",
     copy_err |-> FALSE, ret |-> 0, tid |-> 0, policy |-> 0, off |-> 0,
     exit |-> "none", mon |-> <<>>, exe |-> <<>>,
     len |-> 0, padded_len |-> 0, index |-> 0, key_size |-> 0]

\* the registers of a preempted invocation of the gate: the CPU it runs on,
\* the cgroup of its task, bprm->file, policy_id, current_offset
Ctx(cpu, cgid, file, pre) ==
    [active |-> TRUE, cpu |-> cpu, cgid |-> cgid, file |-> file, tid |-> pre.tid,
     policy |-> pre.policy, off |-> pre.off]

NoCtx ==
    [active |-> FALSE, cpu |-> 0, cgid |-> 0, file |-> 0, tid |-> 0, policy |-> 0,
     off |-> 0]

\* fmod_ret/security_bprm_creds_for_exec
enforce_cgroup_policy(cpu, cgid, file, fault, copy_err) ==
    /\ cgid # 0 => cgroups[cgid] = "live"
    /\ \E g \in {EnforceRun(process_evt_storage_map[cpu], cgid, file, fault, copy_err,
                            kver, cgtracker_map, cg_to_policy_map, policy_mode_map,
                            pol_str_maps, ringbuf_monitoring)} :
           /\ process_evt_storage_map' = [process_evt_storage_map EXCEPT ![cpu] = g.evt]
           /\ ringbuf_monitoring' = g.ring
           /\ obs' = Obs("enforce", cpu, cgid, file, fault, copy_err, g, g.pub, <<>>)
    /\ UNCHANGED <<kver, cgroups, cgtracker_map, cg_to_policy_map,
                   policy_mode_map, pol_str_maps, ringbuf_execve, inherited,
                   suspended, mkdir_pending>>

\* The mkdir handler keeps cgid_tracker, the pointer bpf_map_lookup_elem
\* returned for the entry of the parent, until bpf_map_update_elem reads
\* through it.  freed: the entry was deleted since the lookup, so its element
\* is back on the free list of the preallocated hash map; may: the values the
\* element can hold, the value looked up and, once freed, the value of any
\* entry inserted since (an insertion takes its element from the free list).
NoMkdir ==
    [active |-> FALSE, cgid |-> 0, cgid_parent |-> 0, cgid_tracker |-> 0,
     freed |-> FALSE, may |-> {}]

PendingAfter(p, old, new) ==
    IF ~p.active THEN p
    ELSE [p EXCEPT !.freed = @ \/ p.cgid_parent \notin DOMAIN new,
                   !.may = IF p.freed
                           THEN @ \cup {new[k] : k \in DOMAIN new \ DOMAIN old}
                           ELSE @]

\* fmod_ret/security_bprm_creds_for_exec when its task is preempted before
\* the lookup: the program runs from the trampoline with migration disabled
\* and preemption enabled, so other tasks run on the CPU before it goes on
enforce_cgroup_policy_preempted(cpu, cgid, file) ==
    /\ cgid # 0 => cgroups[cgid] = "live"
    /\ ~suspended.active
    /\ \E pre \in {EnforceResolve(process_evt_storage_map[cpu], cgid, file, "none",
                                   kver, cgtracker_map, cg_to_policy_map,
                                   ringbuf_monitoring)} :
           /\ pre.exit = "lookup"
           /\ process_evt_storage_map' = [process_evt_storage_map EXCEPT ![cpu] = pre.evt]
           /\ suspended' = Ctx(cpu, cgid, file, pre)
    /\ obs' = [NoObs EXCEPT !.hook = "preempted", !.cpu = cpu, !.cgid = cgid,
                            !.file = file]
    /\ UNCHANGED <<kver, cgroups, cgtracker_map, cg_to_policy_map, policy_mode_map,
                   pol_str_maps, ringbuf_monitoring, ringbuf_execve, inherited, mkdir_pending>>

\* the preempted invocation goes on from the lookup to its return, with the
\* scratch event of its CPU as it is by now
enforce_cgroup_policy_resumed ==
    /\ suspended.active
    /\ \E g \in {EnforceMatch(process_evt_storage_map[suspended.cpu], suspended.policy,
                               suspended.off, suspended.tid, kver, policy_mode_map,
                               pol_str_maps, ringbuf_monitoring, FALSE)} :
           /\ process_evt_storage_map' =
                  [process_evt_storage_map EXCEPT ![suspended.cpu] = g.evt]
           /\ ringbuf_monitoring' = g.ring
           /\ obs' = Obs("enforce", suspended.cpu, suspended.cgid, suspended.file, "none",
                         FALSE, g, g.pub, <<>>)
    /\ suspended' = NoCtx
    /\ UNCHANGED <<kver, cgroups, cgtracker_map, cg_to_policy_map, policy_mode_map,
                   pol_str_maps, ringbuf_execve, inherited, mkdir_pending>>

\* tp_btf/sched_process_exec
execve_send(cpu, cgid, file, fault, copy_err) ==
    /\ cgid # 0 => cgroups[cgid] = "live"
    /\ \E g \in {ExecveRun(process_evt_storage_map[cpu], cgid, file, fault, copy_err,
                           kver, cgtracker_map, ringbuf_execve)} :
           /\ process_evt_storage_map' = [process_evt_storage_map EXCEPT ![cpu] = g.evt]
           /\ ringbuf_execve' = g.ring
           /\ obs' = Obs("execve", cpu, cgid, file, fault, copy_err, g, <<>>, g.pub)
    /\ UNCHANGED <<kver, cgroups, cgtracker_map, cg_to_policy_map,
                   policy_mode_map, pol_str_maps, ringbuf_monitoring,
                   inherited, suspended, mkdir_pending>>

\* a mkdir handler that stores the id of the parent instead of its tracker id
tg_cgtracker_cgroup_mkdir_parent_id(c) ==
    /\ cgroups[c] = "unborn"
    /\ c > 1 /\ cgroups[CgParent(c)] = "live"
    /\ cgroups' = [cgroups EXCEPT ![c] = "live"]
    /\ LET cgid == c
           cgid_parent == cgroup_get_parent_id(c)
           tracked == cgid # 0 /\ cgid_parent # 0 /\ MapHas(cgtracker_map, cgid_parent)
       IN  /\ cgtracker_map' =
                 IF tracked
                 THEN bpf_map_update_elem(cgtracker_map, cgid, cgid_parent,
                                          TrackerMapCapacity)
                 ELSE cgtracker_map
           /\ inherited' =
                 IF MapHas(cgtracker_map, CgParent(c))
                 THEN [x \in DOMAIN inherited \cup {c} |->
                          IF x = c
                          THEN [tracker |-> cgtracker_map[CgParent(c)],
                                room |-> Cardinality(DOMAIN cgtracker_map)
                                             < TrackerMapCapacity,
                                after_release |->
                                    \E d \in CgIds : /\ CgParent(d) = CgParent(c)
                                                     /\ cgroups[d] = "released"]
                          ELSE inherited[x]]
                 ELSE inherited
           /\ obs' = [NoObs EXCEPT !.hook = "mkdir", !.cgid = c,
                                   !.exit = IF ~tracked THEN "untracked"
                                           ELSE IF Cardinality(DOMAIN cgtracker_map)
                                                       < TrackerMapCapacity
                                           THEN "tracked" ELSE "full"]
    /\ mkdir_pending' = PendingAfter(mkdir_pending, cgtracker_map, cgtracker_map')
    /\ UNCHANGED <<kver, cg_to_policy_map, policy_mode_map, pol_str_maps,
                   process_evt_storage_map, ringbuf_monitoring,
                   ringbuf_execve, suspended>>

\* tp_btf/cgroup_mkdir for the new cgroup c
tg_cgtracker_cgroup_mkdir(c) ==
    /\ cgroups[c] = "unborn"
    /\ c > 1 /\ cgroups[CgParent(c)] = "live"
    /\ cgroups' = [cgroups EXCEPT ![c] = "live"]
    /\ LET cgid == c
           cgid_parent == cgroup_get_parent_id(c)
           tracked == cgid # 0 /\ cgid_parent # 0 /\ MapHas(cgtracker_map, cgid_parent)
       IN  /\ cgtracker_map' =
                 IF tracked
                 THEN bpf_map_update_elem(cgtracker_map, cgid, cgtracker_map[cgid_parent],
                                          TrackerMapCapacity)
                 ELSE cgtracker_map
           /\ inherited' =
                 IF MapHas(cgtracker_map, CgParent(c))
                 THEN [x \in DOMAIN inherited \cup {c} |->
                          IF x = c
                          THEN [tracker |-> cgtracker_map[CgParent(c)],
                                room |-> Cardinality(DOMAIN cgtracker_map)
                                             < TrackerMapCapacity,
                                after_release |->
                                    \E d \in CgIds : /\ CgParent(d) = CgParent(c)
                                                     /\ cgroups[d] = "released"]
                          ELSE inherited[x]]
                 ELSE inherited
           /\ obs' = [NoObs EXCEPT !.hook = "mkdir", !.cgid = c,
                                   !.exit = IF ~tracked THEN "untracked"
                                           ELSE IF Cardinality(DOMAIN cgtracker_map)
                                                       < TrackerMapCapacity
                                           THEN "tracked" ELSE "full"]
    /\ mkdir_pending' = PendingAfter(mkdir_pending, cgtracker_map, cgtracker_map')
    /\ UNCHANGED <<kver, cg_to_policy_map, policy_mode_map, pol_str_maps,
                   process_evt_storage_map, ringbuf_monitoring,
                   ringbuf_execve, suspended>>

\* tp_btf/cgroup_mkdir for the new cgroup c when a read of the cgroup fails:
\* "kn" leaves get_cgroup_id with 0, "level" leaves get_cgroup_level with 0,
\* for which cgroup_get_parent_id returns 0
tg_cgtracker_cgroup_mkdir_unreadable(c, fault) ==
    /\ cgroups[c] = "unborn"
    /\ c > 1 /\ cgroups[CgParent(c)] = "live"
    /\ cgroups' = [cgroups EXCEPT ![c] = "live"]
    /\ LET cgid == IF fault = "kn" THEN 0 ELSE c
           cgid_parent == IF fault = "level" THEN cgroup_get_parent_id(1)
                          ELSE cgroup_get_parent_id(c)
           tracked == cgid # 0 /\ cgid_parent # 0 /\ MapHas(cgtracker_map, cgid_parent)
       IN  /\ cgtracker_map' =
                 IF tracked
                 THEN bpf_map_update_elem(cgtracker_map, cgid, cgtracker_map[cgid_parent],
                                          TrackerMapCapacity)
                 ELSE cgtracker_map
           /\ obs' = [NoObs EXCEPT !.hook = "mkdir", !.cgid = c, !.fault = fault,
                                   !.exit = IF ~tracked THEN "untracked"
                                           ELSE IF Cardinality(DOMAIN cgtracker_map)
                                                       < TrackerMapCapacity
                                           THEN "tracked" ELSE "full"]
    /\ mkdir_pending' = PendingAfter(mkdir_pending, cgtracker_map, cgtracker_map')
    /\ UNCHANGED <<kver, cg_to_policy_map, policy_mode_map, pol_str_maps,
                   process_evt_storage_map, ringbuf_monitoring,
                   ringbuf_execve, inherited, suspended>>

\* tp_btf/cgroup_mkdir for the new cgroup c up to bpf_map_lookup_elem, when
\* the parent has an entry: the handler holds the pointer cgid_tracker while
\* other handlers and userspace run
tg_cgtracker_cgroup_mkdir_lookup(c) ==
    /\ ~mkdir_pending.active
    /\ cgroups[c] = "unborn"
    /\ c > 1 /\ cgroups[CgParent(c)] = "live"
    /\ LET cgid == c
           cgid_parent == cgroup_get_parent_id(c)
       IN  /\ cgid # 0 /\ cgid_parent # 0 /\ MapHas(cgtracker_map, cgid_parent)
           /\ mkdir_pending' = [active |-> TRUE, cgid |-> cgid,
                                cgid_parent |-> cgid_parent,
                                cgid_tracker |-> cgtracker_map[cgid_parent],
                                freed |-> FALSE,
                                may |-> {cgtracker_map[cgid_parent]}]
    /\ cgroups' = [cgroups EXCEPT ![c] = "creating"]
    /\ obs' = [NoObs EXCEPT !.hook = "mkdir_lookup", !.cgid = c]
    /\ UNCHANGED <<kver, cgtracker_map, cg_to_policy_map, policy_mode_map,
                   pol_str_maps, process_evt_storage_map, ringbuf_monitoring,
                   ringbuf_execve, inherited, suspended>>

\* the same handler from bpf_map_update_elem on: the value it stores is the
\* one the element behind cgid_tracker holds now
tg_cgtracker_cgroup_mkdir_update ==
    /\ mkdir_pending.active
    /\ \E v \in mkdir_pending.may :
           cgtracker_map' = bpf_map_update_elem(cgtracker_map, mkdir_pending.cgid, v,
                                                TrackerMapCapacity)
    /\ cgroups' = [cgroups EXCEPT ![mkdir_pending.cgid] = "live"]
    /\ inherited' =
          [x \in DOMAIN inherited \cup {mkdir_pending.cgid} |->
              IF x = mkdir_pending.cgid
              THEN [tracker |-> mkdir_pending.cgid_tracker,
                    room |-> Cardinality(DOMAIN cgtracker_map) < TrackerMapCapacity,
                    after_release |->
                        \E d \in CgIds : /\ CgParent(d) = mkdir_pending.cgid_parent
                                         /\ cgroups[d] = "released"]
              ELSE inherited[x]]
    /\ obs' = [NoObs EXCEPT !.hook = "mkdir", !.cgid = mkdir_pending.cgid,
                            !.exit = IF Cardinality(DOMAIN cgtracker_map)
                                          < TrackerMapCapacity
                                     THEN "tracked" ELSE "full"]
    /\ mkdir_pending' = NoMkdir
    /\ UNCHANGED <<kver, cg_to_policy_map, policy_mode_map, pol_str_maps,
                   process_evt_storage_map, ringbuf_monitoring,
                   ringbuf_execve, suspended>>

\* a release handler that also drops the policy binding of the cgroup
tg_cgtracker_cgroup_release_unbind(c) ==
    /\ cgroups[c] = "live"
    /\ c > 1
    /\ \A k \in CgIds : CgParent(k) = c => cgroups[k] # "live"
    /\ cgroups' = [cgroups EXCEPT ![c] = "released"]
    /\ cgtracker_map' = bpf_map_delete_elem(cgtracker_map, c)
    /\ cg_to_policy_map' = bpf_map_delete_elem(cg_to_policy_map, c)
    /\ inherited' = [x \in DOMAIN inherited \ {c} |-> inherited[x]]
    /\ obs' = [NoObs EXCEPT !.hook = "release", !.cgid = c]
    /\ mkdir_pending' = PendingAfter(mkdir_pending, cgtracker_map, cgtracker_map')
    /\ UNCHANGED <<kver, policy_mode_map, pol_str_maps,
                   process_evt_storage_map, ringbuf_monitoring,
                   ringbuf_execve, suspended>>

\* tp_btf/cgroup_release for cgroup c
tg_cgtracker_cgroup_release(c) ==
    /\ cgroups[c] = "live"
    /\ c > 1
    /\ \A k \in CgIds : CgParent(k) = c => cgroups[k] # "live"
    /\ cgroups' = [cgroups EXCEPT ![c] = "released"]
    /\ LET cgid == c
       IN  cgtracker_map' = IF cgid # 0
                            THEN bpf_map_delete_elem(cgtracker_map, cgid)
                            ELSE cgtracker_map
    /\ inherited' = [x \in DOMAIN inherited \ {c} |-> inherited[x]]
    /\ obs' = [NoObs EXCEPT !.hook = "release", !.cgid = c]
    /\ mkdir_pending' = PendingAfter(mkdir_pending, cgtracker_map, cgtracker_map')
    /\ UNCHANGED <<kver, cg_to_policy_map, policy_mode_map, pol_str_maps,
                   process_evt_storage_map, ringbuf_monitoring,
                   ringbuf_execve, suspended>>

(***************************************************************************)
(* Userspace (spec.md, sections 3 and 6): it seeds the tracker map, writes *)
(* the policy maps and drains the ring buffers.                            *)
(***************************************************************************)
\* userspace starts tracking the cgroup of a container: tracker_map[c] = c
user_track(c) ==
    /\ cgroups[c] = "live"
    /\ ~MapHas(cgtracker_map, c)
    /\ cgtracker_map' = bpf_map_update_elem(cgtracker_map, c, c, TrackerMapCapacity)
    /\ obs' = [NoObs EXCEPT !.hook = "user"]
    /\ mkdir_pending' = PendingAfter(mkdir_pending, cgtracker_map, cgtracker_map')
    /\ UNCHANGED <<kver, cgroups, cg_to_policy_map, policy_mode_map,
                   pol_str_maps, process_evt_storage_map, ringbuf_monitoring,
                   ringbuf_execve, inherited, suspended>>

user_set_mode(p, mode) ==
    /\ policy_mode_map' = [x \in DOMAIN policy_mode_map \cup {p} |->
                              IF x = p THEN mode ELSE policy_mode_map[x]]
    /\ obs' = [NoObs EXCEPT !.hook = "user"]
    /\ UNCHANGED <<kver, cgroups, cgtracker_map, cg_to_policy_map,
                   pol_str_maps, process_evt_storage_map, ringbuf_monitoring,
                   ringbuf_execve, inherited, suspended, mkdir_pending>>

\* the consumer drains both ring buffers
user_consume ==
    /\ ringbuf_monitoring + ringbuf_execve > 0
    /\ ringbuf_monitoring' = 0
    /\ ringbuf_execve' = 0
    /\ obs' = [NoObs EXCEPT !.hook = "user"]
    /\ UNCHANGED <<kver, cgroups, cgtracker_map, cg_to_policy_map,
                   policy_mode_map, pol_str_maps, process_evt_storage_map,
                   inherited, suspended, mkdir_pending>>

(***************************************************************************)
(* The matcher's dispatch on its own: what the gate computes between the   *)
(* resolver and the lookup, for the path length left in the scratch event  *)
(* of the CPU and policy p.                                                *)
(***************************************************************************)
string_map_dispatch(cpu, p) ==
    /\ LET len == process_evt_storage_map[cpu].path_len
           padded_len == string_padded_len(len, kver)
           index == string_map_index(padded_len, kver)
           string_map == get_policy_string_map(pol_str_maps, index, p)
       IN  obs' = [NoObs EXCEPT !.hook = "dispatch", !.cpu = cpu, !.policy = p,
                                !.len = len,
                                !.padded_len = padded_len, !.index = index,
                                !.key_size = string_map.key_size,
                                !.exit = IF string_map.found THEN "found"
                                         ELSE "no_string_map"]
    /\ UNCHANGED <<kver, cgroups, cgtracker_map, cg_to_policy_map,
                   policy_mode_map, pol_str_maps, process_evt_storage_map,
                   ringbuf_monitoring, ringbuf_execve, inherited, suspended, mkdir_pending>>

(***************************************************************************)
(* Initial states.  The host has booted: cgroups 1..3 exist, the maps are  *)
(* as userspace left them after loading the programs.                      *)
(***************************************************************************)
BootCgroups == [c \in CgIds |-> IF c <= 3 THEN "live" ELSE "unborn"]

EmptyStrMaps == [b \in StringMapIndexes |-> EmptyMap]

\* the tables of the policies ps hold the paths of files
InstalledStrMaps(ps, files, kv) ==
    [b \in StringMapIndexes |->
        IF b \in StoreIndexes(kv)
        THEN [p \in ps |-> StoredKeys(files, b, kv)]
        ELSE EmptyMap]

InitScratch ==
    /\ process_evt_storage_map = [cpu \in Cpus |-> ZeroEvt]
    /\ ringbuf_monitoring = 0
    /\ ringbuf_execve = 0
    /\ inherited = EmptyMap
    /\ obs = NoObs
    /\ suspended = NoCtx
    /\ mkdir_pending = NoMkdir

GateKernels == {KERNEL_VERSION(5, 10, 0), KERNEL_VERSION(5, 11, 0)}

Allowlist == {3, 12}

Modes == {POLICY_MODE_MONITOR, POLICY_MODE_PROTECT}

Input(cgid, file, fault, copy_err) ==
    [cgid |-> cgid, file |-> file, fault |-> fault, copy_err |-> copy_err]

\* The gate: cgroup 2 is a tracked container root, cgroups 1 and 3 are not
\* tracked, policy 7 is bound to 1 and to 2 and its allowlist is installed;
\* userspace then writes the mode of policy 7.
Init ==
    /\ kver \in GateKernels
    /\ cgroups = BootCgroups
    /\ cgtracker_map = (2 :> 2)
    /\ cg_to_policy_map = (1 :> 7 @@ 2 :> 7)
    /\ policy_mode_map = EmptyMap
    /\ pol_str_maps = InstalledStrMaps({7}, Allowlist, kver)
    /\ InitScratch

GateInputs ==
    {Input(0, 5, "none", FALSE), Input(1, 5, "none", FALSE), Input(3, 5, "none", FALSE)}
    \cup {Input(2, f, "none", FALSE) : f \in {0, 3, 5, 12}}

ExecveInputs ==
    {Input(0, 5, "none", FALSE), Input(1, 5, "none", FALSE), Input(2, 3, "none", FALSE),
     Input(2, 300, "none", FALSE)}

Next ==
    \/ \E in \in GateInputs :
          enforce_cgroup_policy(0, in.cgid, in.file, in.fault, in.copy_err)
    \/ \E in \in ExecveInputs :
          execve_send(0, in.cgid, in.file, in.fault, in.copy_err)
    \/ \E mode \in Modes : user_set_mode(7, mode)
    \/ user_consume

Spec == Init /\ [][Next]_vars

\* Long paths on a host with large hash keys: policy 7 is in place on
\* cgroup 2.
InitLong ==
    /\ kver = KERNEL_VERSION(5, 11, 0)
    /\ cgroups = BootCgroups
    /\ cgtracker_map = (2 :> 2)
    /\ cg_to_policy_map = (2 :> 7)
    /\ policy_mode_map = (7 :> POLICY_MODE_MONITOR)
    /\ pol_str_maps = InstalledStrMaps({7}, Allowlist, kver)
    /\ InitScratch

LongFiles == {3, 5, 18, 300}

NextLong ==
    \/ \E f \in LongFiles : enforce_cgroup_policy(0, 2, f, "none", FALSE)
    \/ \E f \in LongFiles : execve_send(0, 2, f, "none", FALSE)
    \/ \E mode \in Modes : user_set_mode(7, mode)
    \/ user_consume

SpecLong == InitLong /\ [][NextLong]_vars

\* Failures: missing ids, bindings and files, paths the resolver gives up
\* on, paths over the cap of hosts without large hash keys, failing reads.
InitFailOpen ==
    /\ kver \in GateKernels
    /\ cgroups = BootCgroups
    /\ cgtracker_map = (2 :> 2)
    /\ cg_to_policy_map = (2 :> 7)
    /\ policy_mode_map = (7 :> POLICY_MODE_PROTECT)
    /\ pol_str_maps = InstalledStrMaps({7}, Allowlist, kver)
    /\ InitScratch

FailOpenInputs ==
    {Input(0, 5, "none", FALSE), Input(3, 5, "none", FALSE),
     Input(2, 5, "dentry", FALSE), Input(2, 5, "name", FALSE),
     Input(2, 5, "none", TRUE)}
    \cup {Input(2, f, "none", FALSE) : f \in {0, 3, 5, 18, 131}}

NextFailOpen ==
    \/ \E in \in FailOpenInputs :
          enforce_cgroup_policy(0, in.cgid, in.file, in.fault, in.copy_err)
    \/ \E mode \in Modes : user_set_mode(7, mode)
    \/ user_consume

SpecFailOpen == InitFailOpen /\ [][NextFailOpen]_vars

\* The tracker: cgroups are created and released under tracked roots while
\* tasks exec in them; policy 7 is bound to cgroup 2 and policy 8 to
\* cgroups 3 and 4.
InitTracker ==
    /\ kver = KERNEL_VERSION(5, 11, 0)
    /\ cgroups = BootCgroups
    /\ cgtracker_map = EmptyMap
    /\ cg_to_policy_map = (2 :> 7 @@ 3 :> 8 @@ 4 :> 8)
    /\ policy_mode_map = (7 :> POLICY_MODE_PROTECT @@ 8 :> POLICY_MODE_MONITOR)
    /\ pol_str_maps = InstalledStrMaps(Policies, {3}, kver)
    /\ InitScratch

NextTracker ==
    \/ \E c \in CgIds : tg_cgtracker_cgroup_mkdir(c)
    \/ \E c \in CgIds : tg_cgtracker_cgroup_release(c)
    \/ \E c \in {1, 2, 3} : user_track(c)
    \/ \E c \in CgIds \cup {0} : enforce_cgroup_policy(0, c, 5, "none", FALSE)
    \/ user_consume

SpecTracker == InitTracker /\ [][NextTracker]_vars

\* The matcher: every path length under every kernel.
InitBucket ==
    /\ kver \in KernelVersions
    /\ cgroups = BootCgroups
    /\ cgtracker_map = (2 :> 2)
    /\ cg_to_policy_map = (2 :> 7)
    /\ policy_mode_map = (7 :> POLICY_MODE_PROTECT)
    /\ pol_str_maps = InstalledStrMaps({7}, {3}, kver)
    /\ \E len \in 1..MAX_PATH_LEN :
          process_evt_storage_map = [cpu \in Cpus |-> [ZeroEvt EXCEPT !.path_len = len]]
    /\ ringbuf_monitoring = 0
    /\ ringbuf_execve = 0
    /\ inherited = EmptyMap
    /\ obs = NoObs
    /\ suspended = NoCtx
    /\ mkdir_pending = NoMkdir

NextBucket == string_map_dispatch(0, 7)

SpecBucket == InitBucket /\ [][NextBucket]_vars

(***************************************************************************)
(* The vocabulary of the properties (spec.md): what the specification      *)
(* calls the tracker id of a task, the policy that governs it, the         *)
(* resolved path and membership in an allowlist.                           *)
(***************************************************************************)
\* spec.md 4.2: tracker_id(task) := tracker_map[cgid] if present else cgid
TrackerId(c) ==
    IF c = 0 THEN 0
    ELSE IF MapHas(cgtracker_map, c) THEN cgtracker_map[c] ELSE c

GateRan == obs.hook = "enforce"

\* the tracker id of the task is non-zero and bound to a policy
Bound == TrackerId(obs.cgid) # 0 /\ MapHas(cg_to_policy_map, TrackerId(obs.cgid))

GatePolicy == cg_to_policy_map[TrackerId(obs.cgid)]

\* what the resolver returns for the file of the last invocation
Walked == bpf_d_path_approx(obs.file, ZeroPath, FsRoot, kver, obs.fault)

Resolved == obs.file # 0 /\ Walked.ret > 0

ResolvedPath == ReadBytes(Walked.buf, Walked.ret, MAX_PATH_LEN * 2 - Walked.ret)

\* the path is a string of the allowlist of policy p: one of the tables of
\* p holds it, zero-padded to the width of the table
Allowlisted(p, path) ==
    \E b \in StringMapIndexes :
        /\ MapHas(pol_str_maps[b], p)
        /\ Len(path) <= StringMapsSize(b)
        /\ PadTo(path, StringMapsSize(b)) \in pol_str_maps[b][p]

ModePresent == MapHas(policy_mode_map, GatePolicy)

\* a miss: bound, resolved and not allowlisted
Miss == Bound /\ Resolved /\ ~Allowlisted(GatePolicy, ResolvedPath)

Published == obs.mon \o obs.exe

(***************************************************************************)
(* C1.  Every invocation of the enforcement gate returns 0 or -EPERM, and  *)
(* it returns -EPERM if and only if the tracker id of the task is non-zero *)
(* and bound to a policy, the path of the executable resolved, the         *)
(* resolved path is not in the allowlist of that policy and the mode of    *)
(* the policy is enforce (2).                                              *)
(***************************************************************************)
C1_DenyIffEnforcedMiss ==
    GateRan =>
        /\ obs.ret \in {0, -EPERM}
        /\ obs.ret = -EPERM <=>
              /\ Miss
              /\ ModePresent
              /\ policy_mode_map[GatePolicy] = POLICY_MODE_PROTECT

(***************************************************************************)
(* C2.  When the tracker id of the task is bound to a policy and the       *)
(* resolved path is in the allowlist of that policy, the gate returns 0    *)
(* and publishes no monitoring record, whatever the mode.                  *)
(***************************************************************************)
C2_AllowlistedIsAllowed ==
    GateRan /\ Bound /\ Resolved /\ Allowlisted(GatePolicy, ResolvedPath) =>
        obs.ret = 0 /\ obs.mon = <<>>

(***************************************************************************)
(* C3.  On a miss under a policy whose mode is present the gate publishes  *)
(* exactly one monitoring record, whose path bytes are the resolved path,  *)
(* whose path_len is the length of that path and whose mode is the mode of *)
(* the policy; it returns 0 in monitor mode and -EPERM in enforce mode.    *)
(* Stated for the invocations that find room in the ring buffer.           *)
(***************************************************************************)
\* the ring buffer had room for the record of the last gate invocation
RingHadRoom == obs.mon # <<>> \/ ringbuf_monitoring < RingCapacity

C3_MissPublishesRecord ==
    GateRan /\ Miss /\ ModePresent /\ RingHadRoom =>
        /\ Len(obs.mon) = 1
        /\ obs.mon[1].path = ResolvedPath
        /\ obs.mon[1].path_len = Len(ResolvedPath)
        /\ obs.mon[1].mode = policy_mode_map[GatePolicy]
        /\ obs.ret = IF policy_mode_map[GatePolicy] = POLICY_MODE_MONITOR
                     THEN 0 ELSE -EPERM

FailOpenCase ==
    \/ obs.cgid = 0
    \/ ~Bound
    \/ obs.file = 0
    \/ obs.file # 0 /\ Walked.ret <= 0
    \/ /\ kver < KERNEL_VERSION(5, 11, 0)
       /\ Resolved
       /\ Len(ResolvedPath) > STRING_MAPS_SIZE_7
    \/ obs.fault # "none"
    \/ obs.copy_err

C5_FailsOpen == GateRan /\ FailOpenCase => obs.ret = 0 /\ obs.mon = <<>>

(***************************************************************************)
(* C6.  As stated: for every child cgroup whose parent had a tracker map   *)
(* entry when the mkdir of the child was processed and which has not been  *)
(* released, tracker_map[child] is present and equals the value            *)
(* tracker_map[parent] held at that moment.                                *)
(***************************************************************************)
C6_ChildInherits ==
    \A c \in DOMAIN inherited :
        MapHas(cgtracker_map, c) /\ cgtracker_map[c] = inherited[c].tracker

(***************************************************************************)
(* C6, amended.  The same for every such child whose mkdir found the       *)
(* tracker map below its capacity.                                         *)
(***************************************************************************)
C6_ChildInheritsWithRoom ==
    \A c \in DOMAIN inherited :
        inherited[c].room =>
            MapHas(cgtracker_map, c) /\ cgtracker_map[c] = inherited[c].tracker

\* a child that inherited tracker 2 is live after another cgroup was released
C6_Witness ==
    \E c \in DOMAIN inherited :
        /\ inherited[c].room
        /\ cgroups[c] = "live"
        /\ cgtracker_map[c] = 2
        /\ \E d \in CgIds : cgroups[d] = "released"

(***************************************************************************)
(* C7.  Processing cgroup-release for cgroup C removes the key C from the  *)
(* tracker map and leaves every other entry unchanged; a child C' created  *)
(* afterwards under the still tracked parent gets the tracker of the       *)
(* parent, and an enforcement on a task in C' consults the policy bound to *)
(* that tracker.                                                           *)
(***************************************************************************)
ReleaseRemovesOnlyItsKey ==
    obs'.hook = "release" =>
        cgtracker_map' = [x \in DOMAIN cgtracker_map \ {obs'.cgid} |-> cgtracker_map[x]]

SiblingReleased(c) ==
    \E d \in CgIds : d # c /\ CgParent(d) = CgParent(c) /\ cgroups[d] = "released"

LaterChildInherits(needRoom) ==
    /\ obs'.hook = "mkdir"
    /\ MapHas(cgtracker_map, CgParent(obs'.cgid))
    /\ SiblingReleased(obs'.cgid)
    /\ needRoom => Cardinality(DOMAIN cgtracker_map) < TrackerMapCapacity
    => /\ MapHas(cgtracker_map', obs'.cgid)
       /\ cgtracker_map'[obs'.cgid] = cgtracker_map[CgParent(obs'.cgid)]

LaterChildGoverned(needRoom) ==
    /\ obs'.hook = "enforce"
    /\ obs'.cgid \in DOMAIN inherited'
    /\ inherited'[obs'.cgid].after_release
    /\ needRoom => inherited'[obs'.cgid].room
    => /\ obs'.tid = inherited'[obs'.cgid].tracker
       /\ MapHas(cg_to_policy_map, obs'.tid) => obs'.policy = cg_to_policy_map[obs'.tid]

C8_PolicyOfTrackerId ==
    GateRan =>
        /\ ~Bound => obs.ret = 0 /\ obs.mon = <<>> /\ obs.policy = 0
        /\ Bound =>
              /\ obs.tid = TrackerId(obs.cgid)
              /\ obs.policy = GatePolicy
              /\ \A i \in 1..Len(obs.mon) : obs.mon[i].mode = policy_mode_map[GatePolicy]
              /\ obs.exit \in {"monitor", "enforce"} =>
                    (obs.ret = -EPERM <=>
                        policy_mode_map[GatePolicy] = POLICY_MODE_PROTECT)

\* cgroup 4 carries a binding of its own (policy 8, monitor) and is tracked
\* under cgroup 2: policy 7 (enforce) decides
C8_Witness ==
    /\ GateRan
    /\ obs.cgid = 4
    /\ MapHas(cgtracker_map, 4) /\ cgtracker_map[4] = 2
    /\ MapHas(cg_to_policy_map, 4) /\ cg_to_policy_map[4] = 8
    /\ obs.policy = 7
    /\ obs.ret = -EPERM

RefPaddedLen(len, kv) ==
    IF len < 144 THEN ((len + 23) \div 24) * 24 ELSE StringMapsSize(StoreIndex(len, kv))

C10_BucketSelection ==
    obs.hook = "dispatch" =>
        /\ obs.padded_len = RefPaddedLen(obs.len, kver)
        /\ obs.index = StoreIndex(obs.len, kver)
        /\ obs.exit = "found"
        /\ obs.key_size = obs.padded_len

(***************************************************************************)
(* The matcher in the gate.  Policy 7 governs cgroup 2 in enforce mode;    *)
(* its allowlist holds /bin/ok, the 130-byte path, the 145-byte path and   *)
(* the 4096-byte path of directory 115.  Tasks of cgroup 2 execute files   *)
(* whose paths are in the allowlist, prefixes of allowlisted paths, and    *)
(* paths that have an allowlisted path as a prefix.                        *)
(***************************************************************************)
MatchAllowlist == {3, 12, 15, 115}

MatchFiles == {3, 5, 12, 14, 15, 115, 301}

InitMatch ==
    /\ kver \in GateKernels
    /\ cgroups = BootCgroups
    /\ cgtracker_map = (2 :> 2)
    /\ cg_to_policy_map = (2 :> 7)
    /\ policy_mode_map = (7 :> POLICY_MODE_PROTECT)
    /\ pol_str_maps = InstalledStrMaps({7}, MatchAllowlist, kver)
    /\ InitScratch

NextMatch ==
    \/ \E f \in MatchFiles : enforce_cgroup_policy(0, 2, f, "none", FALSE)
    \/ \E mode \in Modes : user_set_mode(7, mode)
    \/ user_consume

SpecMatch == InitMatch /\ [][NextMatch]_vars

\* the largest path length that can be stored on the host
MaxStoredLen == IF kver < KERNEL_VERSION(5, 11, 0) THEN STRING_MAPS_SIZE_7 ELSE MAX_PATH_LEN

\* the path is stored, zero-padded, in the bucket of policy p that the data
\* model assigns to its length
StoredInAssignedBucket(p, path) ==
    /\ Len(path) <= MaxStoredLen
    /\ MapHas(pol_str_maps[StoreIndex(Len(path), kver)], p)
    /\ PadTo(path, StringMapsSize(StoreIndex(Len(path), kver)))
          \in pol_str_maps[StoreIndex(Len(path), kver)][p]

(***************************************************************************)
(* C11.  Store/lookup round trip: for every path of length L <= PATH_MAX   *)
(* (<= 512 without large keys) stored, zero-padded, in the bucket of       *)
(* policy P that the data model assigns to L, an enforcement on a task     *)
(* governed by P executing exactly that path looks the path up in the same *)
(* bucket, finds it and allows the execution.                              *)
(***************************************************************************)
C11_StoreLookupRoundTrip ==
    /\ GateRan /\ Bound /\ Resolved
    /\ StoredInAssignedBucket(GatePolicy, ResolvedPath)
    => /\ obs.exit = "match"
       /\ obs.index = StoreIndex(Len(ResolvedPath), kver)
       /\ obs.ret = 0
       /\ obs.mon = <<>>

(***************************************************************************)
(* The dispatch for two path lengths: the scratch events of two CPUs hold  *)
(* paths whose lengths lie at and around the edges of the key widths.      *)
(***************************************************************************)
PairCpus == {0, 1}

PairLens ==
    {1}
    \cup {k * STRING_MAPS_KEY_INC_SIZE + d : k \in 1..6, d \in {-1, 0, 1}}
    \cup {w + d : w \in {STRING_MAPS_SIZE_6, STRING_MAPS_SIZE_7, STRING_MAPS_SIZE_8,
                         STRING_MAPS_SIZE_9},
                  d \in {-1, 0, 1}}
    \cup {MAX_PATH_LEN - 1, MAX_PATH_LEN}

InitPairs ==
    /\ kver \in KernelVersions
    /\ cgroups = BootCgroups
    /\ cgtracker_map = (2 :> 2)
    /\ cg_to_policy_map = (2 :> 7)
    /\ policy_mode_map = (7 :> POLICY_MODE_PROTECT)
    /\ pol_str_maps = InstalledStrMaps({7}, {3}, kver)
    /\ \E lens \in [PairCpus -> PairLens] :
          process_evt_storage_map =
              [cpu \in PairCpus |-> [ZeroEvt EXCEPT !.path_len = lens[cpu]]]
    /\ ringbuf_monitoring = 0
    /\ ringbuf_execve = 0
    /\ inherited = EmptyMap
    /\ obs = NoObs
    /\ suspended = NoCtx
    /\ mkdir_pending = NoMkdir

NextPairs == \E cpu \in PairCpus : string_map_dispatch(cpu, 7)

SpecPairs == InitPairs /\ [][NextPairs]_vars

(***************************************************************************)
(* C12.  For any two path lengths L and L' in 1..PATH_MAX,                 *)
(* string_map_index(string_padded_len(L)) equals                           *)
(* string_map_index(string_padded_len(L')) if and only if                  *)
(* string_padded_len(L) equals string_padded_len(L'): distinct padded      *)
(* lengths never share a bucket index.  Stated on two consecutive          *)
(* dispatches.                                                             *)
(***************************************************************************)
C12_IndexInjectiveOnPaddedLen ==
    [][obs.hook = "dispatch" /\ obs'.hook = "dispatch" =>
          ((obs.index = obs'.index) <=> (obs.padded_len = obs'.padded_len))]_vars

(***************************************************************************)
(* C13.  Bucket boundary: with a path of length 145 in the allowlist, a    *)
(* query with the 144-byte path that is a prefix of the stored path is     *)
(* looked up in a different bucket than the stored path and misses, and a  *)
(* query equal to the stored 145-byte path is looked up in bucket 6 (width *)
(* 256) and hits.                                                          *)
(***************************************************************************)
\* bucket 6 of policy p holds a 145-byte string that starts with the path
PrefixOfStored145(p, path) ==
    /\ Len(path) = 144
    /\ MapHas(pol_str_maps[6], p)
    /\ \E k \in pol_str_maps[6][p] :
          SubSeq(k, 1, 144) = path /\ k[145] # 0 /\ k[146] = 0

C13_BucketBoundary ==
    GateRan /\ Bound /\ Resolved =>
        /\ PrefixOfStored145(GatePolicy, ResolvedPath) =>
              /\ obs.exit \in LookupExits \ {"match"}
              /\ obs.index # 6
        /\ Len(ResolvedPath) = 145 /\ StoredInAssignedBucket(GatePolicy, ResolvedPath) =>
              /\ obs.exit = "match"
              /\ obs.index = 6
              /\ obs.key_size = STRING_MAPS_SIZE_6

(***************************************************************************)
(* C14.  Exact match only: the gate treats an execution as allowlisted     *)
(* only when the complete resolved path is byte-for-byte equal to a string *)
(* of the allowlist of the governing policy; a resolved path that has an   *)
(* allowlisted string as a prefix, or is a prefix of one, is never a hit,  *)
(* for every resolved length the resolver can produce.                     *)
(***************************************************************************)
C14_ExactMatchOnly ==
    GateRan /\ obs.exit = "match" =>
        Bound /\ Resolved /\ Allowlisted(GatePolicy, ResolvedPath)

(***************************************************************************)
(* The resolver on its own.  Tasks of cgroup 2 execute an ordinary file,   *)
(* an unlinked file, a file on a mounted filesystem, a memfd, files with   *)
(* long and over-long paths, one of them unlinked; the execve emitter resolves each of them in   *)
(* the scratch event of CPU 0, which the gate uses for the allowlisted     *)
(* /bin/ok.                                                                *)
(***************************************************************************)
ResolverFiles == {5, 6, 9, 10, 300, 303, 131, 302}

InitResolver ==
    /\ kver \in KernelVersions
    /\ cgroups = BootCgroups
    /\ cgtracker_map = (2 :> 2)
    /\ cg_to_policy_map = (2 :> 7)
    /\ policy_mode_map = (7 :> POLICY_MODE_MONITOR)
    /\ pol_str_maps = InstalledStrMaps({7}, {3}, kver)
    /\ InitScratch

NextResolver ==
    \/ \E f \in ResolverFiles : execve_send(0, 2, f, "none", FALSE)
    \/ enforce_cgroup_policy(0, 2, 3, "none", FALSE)
    \/ user_consume

SpecResolver == InitResolver /\ [][NextResolver]_vars

\* the hook of the last invocation called the resolver
WalkRan ==
    /\ obs.hook \in {"enforce", "execve"}
    /\ obs.exit \notin {"no_cgroup", "no_policy", "no_file"}

\* the path the walk is to produce (spec.md 4.1): '/' and the name of each
\* component from the root anchor down to the leaf, the suffix of an
\* unlinked leaf, and for a pathless object '/' and the name of the leaf
ExpectedPath(file) ==
    IF PathOf(file) = <<>>
    THEN <<SLASH>> \o d_name(f_dentry(file))
    ELSE PathOf(file)

\* the scratch path region of the CPU of the last invocation
ScratchPath == process_evt_storage_map[obs.cpu].path

\* the bytes of the scratch path region from index from up to index to - 1
\* are zero
ZeroBetween(from, to) == SubSeq(ScratchPath, from + 1, to) = Rep(0, to - from)

(***************************************************************************)
(* C15.  bpf_d_path_approx returns either a negative 'unresolved' value or *)
(* an offset off with 0 <= off < 2*PATH_MAX such that the bytes            *)
(* [off, 2*PATH_MAX) of the scratch region are exactly '/' + name for each *)
(* component from the root anchor down to the leaf, crossing mount         *)
(* boundaries; no index written during the walk lies outside               *)
(* [0, 2*PATH_MAX).                                                        *)
(***************************************************************************)
C15_ResolverOutput ==
    WalkRan /\ obs.fault = "none" =>
        /\ \/ obs.off < 0
           \/ /\ 0 <= obs.off /\ obs.off < MAX_PATH_LEN * 2
              /\ ReadBytes(Walked.buf, obs.off, MAX_PATH_LEN * 2 - obs.off)
                    = ExpectedPath(obs.file)
        /\ ZeroBetween(MAX_PATH_LEN * 2, MAX_PATH_LEN * 4)

(***************************************************************************)
(* C16.  After any sequence of hook invocations on a CPU the third segment *)
(* [2*PATH_MAX, 3*PATH_MAX) of the scratch path region of that CPU is all  *)
(* zero, so that the bytes that follow a right-aligned resolved path are   *)
(* valid zero padding for the fixed-width lookup key.                      *)
(***************************************************************************)
C16_ThirdSegmentZero ==
    \A cpu \in DOMAIN process_evt_storage_map :
        SubSeq(process_evt_storage_map[cpu].path, MAX_PATH_LEN * 2 + 1, MAX_PATH_LEN * 3)
            = Rep(0, MAX_PATH_LEN)

(***************************************************************************)
(* C17.  For every record published on the execve or the monitoring ring   *)
(* buffer the length passed to the ring buffer is exactly 19 + path_len,   *)
(* path_len being the field of the record and the number of resolved path  *)
(* bytes that follow the header, and the length is at most 19 + PATH_MAX.  *)
(***************************************************************************)
C17_RecordLength ==
    \A i \in DOMAIN Published :
        /\ Published[i].size = EVT_HEADER_SIZE + Published[i].path_len
        /\ Published[i].path_len = Len(ResolvedPath)
        /\ Published[i].path = ResolvedPath
        /\ Published[i].size <= EVT_HEADER_SIZE + MAX_PATH_LEN

(***************************************************************************)
(* Two CPUs and tasks of two containers.  Cgroups 2 and 3 are tracked      *)
(* container roots bound to policy 7, which allowlists /bin/ok.  A gate    *)
(* invocation may be preempted before its lookup; until it goes on, other  *)
(* tasks execute files on either CPU.  The preempted task is of cgroup 2   *)
(* and runs on CPU 0, the others are of cgroup 3.                          *)
(***************************************************************************)
PreemptFiles == {3, 5}

InitPreempt ==
    /\ kver = KERNEL_VERSION(5, 11, 0)
    /\ cgroups = BootCgroups
    /\ cgtracker_map = (2 :> 2 @@ 3 :> 3)
    /\ cg_to_policy_map = (2 :> 7 @@ 3 :> 7)
    /\ policy_mode_map = (7 :> POLICY_MODE_PROTECT)
    /\ pol_str_maps = InstalledStrMaps({7}, {3}, kver)
    /\ process_evt_storage_map = [cpu \in PairCpus |-> ZeroEvt]
    /\ ringbuf_monitoring = 0
    /\ ringbuf_execve = 0
    /\ inherited = EmptyMap
    /\ obs = NoObs
    /\ suspended = NoCtx
    /\ mkdir_pending = NoMkdir

NextPreempt ==
    \/ \E f \in PreemptFiles : enforce_cgroup_policy_preempted(0, 2, f)
    \/ enforce_cgroup_policy_resumed
    \/ \E cpu \in PairCpus :
          \/ enforce_cgroup_policy(cpu, 3, 5, "none", FALSE)
          \/ \E f \in PreemptFiles : execve_send(cpu, 3, f, "none", FALSE)
    \/ user_consume

SpecPreempt == InitPreempt /\ [][NextPreempt]_vars

(***************************************************************************)
(* C18.  The scratch event of a CPU is owned by one hook invocation from   *)
(* the moment it is obtained until the invocation returns, also when the   *)
(* invocation is preempted by another on its CPU: every record an          *)
(* invocation publishes carries the cgroup id and tracker id of its own    *)
(* task and the length and bytes of the path of its own file.              *)
(***************************************************************************)
C18_ScratchOwned ==
    \A i \in DOMAIN Published :
        /\ Published[i].cgid = obs.cgid
        /\ Published[i].cg_tracker_id = cgrp_get_tracker_id(cgtracker_map, obs.cgid)
        /\ Published[i].path_len = Len(ResolvedPath)
        /\ Published[i].path = ResolvedPath

\* the absolute path of the dentry of a file, without any suffix
LeafPath(file) ==
    IF DentryPath(f_dentry(file), f_mnt(file), FsRoot) = <<>>
    THEN <<SLASH>> \o d_name(f_dentry(file))
    ELSE DentryPath(f_dentry(file), f_mnt(file), FsRoot)

\* the last n bytes of a byte string
Suffix(str, n) == SubSeq(str, Len(str) - n + 1, Len(str))

(***************************************************************************)
(* C19.  When the leaf dentry is unlinked (unhashed and not its own        *)
(* parent) and the walk resolves, the resolved path is the absolute path   *)
(* of the dentry followed by the 10 bytes " (deleted)", the path length    *)
(* includes them and the path of the published event ends with them; when  *)
(* the leaf is not unlinked no suffix is added.                            *)
(***************************************************************************)
C19_DeletedSuffix ==
    WalkRan /\ obs.fault = "none" /\ obs.off > 0 =>
        IF d_unhashed(f_dentry(obs.file))
           /\ f_dentry(obs.file) # d_parent(f_dentry(obs.file))
        THEN /\ ReadBytes(ScratchPath, obs.off, MAX_PATH_LEN * 2 - obs.off)
                   = LeafPath(obs.file) \o DELETED_STRING
             /\ \A i \in DOMAIN Published :
                   /\ Published[i].path_len = Len(LeafPath(obs.file)) + 10
                   /\ Len(Published[i].path) >= 10
                   /\ Suffix(Published[i].path, 10) = DELETED_STRING
        ELSE ReadBytes(ScratchPath, obs.off, MAX_PATH_LEN * 2 - obs.off)
                = LeafPath(obs.file)

(***************************************************************************)
(* The iteration cap.  Tasks of cgroup 2 execute files of a dentry graph   *)
(* that has a cycle (400 and 401 are each the parent of the other), next   *)
(* to ordinary files.                                                      *)
(***************************************************************************)
CapFiles == {5, 9, 400, 401}

NextCap ==
    \/ \E f \in CapFiles : execve_send(0, 2, f, "none", FALSE)
    \/ \E f \in {3, 400} : enforce_cgroup_policy(0, 2, f, "none", FALSE)
    \/ user_consume

SpecCap == InitResolver /\ [][NextCap]_vars

\* the dentry lies on a cycle of the graph: the walk from it reaches neither
\* the root anchor nor the global root
OnCycle(d) == d_parent(d) # d /\ d_parent(d_parent(d)) = d

(***************************************************************************)
(* C20 as stated.  The walk takes at most 128 steps in the unrolled form   *)
(* (hosts without numeric iterators) and 2048 in the iterator form, and    *)
(* when it reaches no root within the cap the resolver returns the         *)
(* negative 'unresolved' result.                                           *)
(***************************************************************************)
C20_WalkCapped128 ==
    WalkRan /\ obs.fault = "none" =>
        /\ Walked.iter <= IF kver >= KERNEL_VERSION(6, 4, 0) THEN 2048 ELSE 128
        /\ OnCycle(f_dentry(obs.file)) => obs.off < 0 /\ obs.exit = "unresolved"

(***************************************************************************)
(* C20.  Every hook invocation terminates: the walk takes at most 512      *)
(* steps in the unrolled form (hosts without numeric iterators) and 2048   *)
(* in the iterator form, and when it reaches no root within the cap, as on *)
(* a cyclic dentry graph, the resolver returns the negative 'unresolved'   *)
(* result.                                                                 *)
(***************************************************************************)
C20_WalkCapped ==
    WalkRan /\ obs.fault = "none" =>
        /\ Walked.iter <= IF kver >= KERNEL_VERSION(6, 4, 0) THEN 2048 ELSE 512
        /\ OnCycle(f_dentry(obs.file)) => obs.off < 0 /\ obs.exit = "unresolved"

\* the unrolled walk of a file on the cycle ran to its cap and the hook
\* returned on 'unresolved'
C20_Witness ==
    /\ obs.hook = "enforce"
    /\ obs.file = 400
    /\ kver < KERNEL_VERSION(6, 4, 0)
    /\ Walked.iter = 512
    /\ obs.off < 0
    /\ obs.exit = "unresolved"

(***************************************************************************)
(* All four hooks next to userspace: cgroups are created and released      *)
(* under tracked roots, tasks exec in them, and userspace seeds the        *)
(* tracker map and rewrites the mode of the policies.                      *)
(***************************************************************************)
NextFrame ==
    \/ \E c \in CgIds : tg_cgtracker_cgroup_mkdir(c)
    \/ \E c \in CgIds : tg_cgtracker_cgroup_release(c)
    \/ \E c \in {2, 4} : enforce_cgroup_policy(0, c, 5, "none", FALSE)
    \/ execve_send(0, 2, 5, "none", FALSE)
    \/ user_track(2)
    \/ \E mode \in Modes : user_set_mode(7, mode)
    \/ user_consume

SpecFrame == InitTracker /\ [][NextFrame]_vars

\* the hooks of the kernel side, as obs names them
KernelHooks == {"mkdir", "release", "execve", "enforce", "preempted"}

(***************************************************************************)
(* C21.  No hook of the kernel side (cgroup mkdir, cgroup release, execve  *)
(* emitter, enforcement gate) inserts, updates or deletes an entry of the  *)
(* policy binding map, the policy mode map or an allowlist table: a step   *)
(* of a hook leaves the three unchanged, and of the lookup maps it changes *)
(* the tracker map only.                                                   *)
(***************************************************************************)
C21_KernelFrame ==
    [][obs'.hook \in KernelHooks =>
          /\ cg_to_policy_map' = cg_to_policy_map
          /\ policy_mode_map' = policy_mode_map
          /\ pol_str_maps' = pol_str_maps]_vars

\* a mkdir has inserted a tracker entry after userspace rewrote the mode of
\* policy 7
C21_Witness ==
    /\ obs.hook = "mkdir"
    /\ obs.exit = "tracked"
    /\ MapHas(cgtracker_map, obs.cgid)
    /\ policy_mode_map[7] = POLICY_MODE_MONITOR

\* the gate run again for the inputs and the maps of the last invocation,
\* on a scratch event nobody has used and the ring buffer as it was
FreshRun ==
    EnforceRun(ZeroEvt, obs.cgid, obs.file, obs.fault, obs.copy_err, kver,
               cgtracker_map, cg_to_policy_map, policy_mode_map, pol_str_maps,
               ringbuf_monitoring - Len(obs.mon))

(***************************************************************************)
(* C22.  The enforcement gate is deterministic: for the same task cgroup,  *)
(* the same file and the same contents of the tracker, binding, mode and   *)
(* allowlist maps it returns the same value and publishes the same         *)
(* monitoring record (or none), whatever earlier invocations on the CPU    *)
(* left in the scratch event.                                              *)
(***************************************************************************)
C22_GateDeterministic ==
    GateRan => obs.ret = FreshRun.ret /\ obs.mon = FreshRun.pub

(***************************************************************************)
(* C23.  The execve emitter does no policy matching: for an exec whose     *)
(* path resolves it publishes exactly one record with mode 0 on the execve *)
(* ring buffer and nothing on the monitoring ring buffer, whatever the     *)
(* policy maps hold; when the resolution fails it publishes nothing.  The  *)
(* gate never publishes on the execve ring buffer.  Stated for the         *)
(* invocations whose copy succeeds and that find room in the ring buffer.  *)
(***************************************************************************)
C23_EmitterOnly ==
    [][/\ obs'.hook = "execve" =>
             /\ ringbuf_monitoring' = ringbuf_monitoring
             /\ IF Resolved' /\ ~obs'.copy_err /\ ringbuf_execve < RingCapacity
                THEN /\ Len(obs'.exe) = 1
                     /\ ringbuf_execve' = ringbuf_execve + 1
                     /\ obs'.exe[1].size >= EVT_HEADER_SIZE
                     /\ obs'.exe[1].mode = 0
                ELSE /\ obs'.exe = <<>>
                     /\ ringbuf_execve' = ringbuf_execve
       /\ obs'.hook = "enforce" => ringbuf_execve' = ringbuf_execve]_vars

InitChain ==
    /\ kver = KERNEL_VERSION(5, 11, 0)
    /\ cgroups = [c \in CgIds |-> IF c = 1 THEN "live" ELSE "unborn"]
    /\ cgtracker_map = EmptyMap
    /\ cg_to_policy_map = (1 :> 7 @@ 2 :> 8)
    /\ policy_mode_map = (7 :> POLICY_MODE_PROTECT @@ 8 :> POLICY_MODE_MONITOR)
    /\ pol_str_maps = InstalledStrMaps(Policies, {3}, kver)
    /\ InitScratch

NextChain ==
    \/ \E c \in CgIds : tg_cgtracker_cgroup_mkdir(c)
    \/ \E c \in CgIds : tg_cgtracker_cgroup_release(c)
    \/ \E c \in {1, 2} : user_track(c)
    \/ \E c \in {4, 5} : enforce_cgroup_policy(0, c, 5, "none", FALSE)
    \/ user_consume

SpecChain == InitChain /\ [][NextChain]_vars

\* a is a proper ancestor of c in the cgroup tree
RECURSIVE IsAncestor(_, _)
IsAncestor(a, c) == c > 1 /\ (CgParent(c) = a \/ IsAncestor(a, CgParent(c)))

\* the cgroups below r on the way down to c, c included
Chain(r, c) == {d \in CgIds : IsAncestor(r, d) /\ (d = c \/ IsAncestor(d, c))}

\* the values stored in a map
Values(m) == {m[k] : k \in DOMAIN m}

\* r holds the entry userspace seeds (r -> r) and had it when the first
\* cgroup of the chain down to the live cgroup c was created
SeededAbove(r, c) ==
    /\ IsAncestor(r, c) /\ cgroups[c] = "live"
    /\ MapHas(cgtracker_map, r) /\ cgtracker_map[r] = r
    /\ \E d \in Chain(r, c) : CgParent(d) = r /\ d \in DOMAIN inherited

\* the mkdir of d did not find the tracker map at its capacity
FoundRoom(d) == d \in DOMAIN inherited => inherited[d].room

\* no kernel handler stores a value that was not in the tracker map already
KernelCopiesValues == obs'.hook \in KernelHooks => Values(cgtracker_map') \subseteq Values(cgtracker_map)

(***************************************************************************)
(* C25.  As stated: every value stored in the tracker map was written by   *)
(* userspace (no kernel handler adds a value the map did not hold), and    *)
(* when userspace seeded tracker_map[R] = R and a chain of nested cgroups  *)
(* was created below R, every descendant at any depth maps to R.           *)
(***************************************************************************)
C25_NeverInvents ==
    /\ [][KernelCopiesValues]_vars
    /\ [](\A r \in CgIds, c \in CgIds :
             SeededAbove(r, c) => (MapHas(cgtracker_map, c) /\ cgtracker_map[c] = r))

(***************************************************************************)
(* C25, amended.  The same for every descendant whose creation, and that   *)
(* of every cgroup between it and R, found the tracker map below its       *)
(* capacity.                                                               *)
(***************************************************************************)
C25_NeverInventsWithRoom ==
    /\ [][KernelCopiesValues]_vars
    /\ [](\A r \in CgIds, c \in CgIds :
             (SeededAbove(r, c) /\ \A d \in Chain(r, c) : FoundRoom(d))
                 => (MapHas(cgtracker_map, c) /\ cgtracker_map[c] = r))

\* a grandchild of the seeded root maps to the root while its parent does too
C25_Witness ==
    /\ SeededAbove(1, 4)
    /\ \A d \in Chain(1, 4) : d \in DOMAIN inherited /\ inherited[d].room
    /\ cgtracker_map[2] = 1 /\ cgtracker_map[4] = 1
    /\ obs.hook = "mkdir" /\ obs.cgid = 4

(***************************************************************************)
(* The mkdir handler on its own: cgroups are created below tracked and     *)
(* untracked parents, with and without room in the tracker map, and with   *)
(* reads of the new cgroup that fail.                                      *)
(***************************************************************************)
MkdirFaults == {"kn", "level"}

NextMkdir ==
    \/ \E c \in CgIds : tg_cgtracker_cgroup_mkdir(c)
    \/ \E c \in CgIds, fault \in MkdirFaults : tg_cgtracker_cgroup_mkdir_unreadable(c, fault)
    \/ \E c \in CgIds : tg_cgtracker_cgroup_release(c)
    \/ \E c \in {1, 2, 3} : user_track(c)
    \/ \E c \in {4, 5} : enforce_cgroup_policy(0, c, 5, "none", FALSE)
    \/ user_consume

SpecMkdir == InitTracker /\ [][NextMkdir]_vars

\* every entry of the tracker map but that of key k is left as it was
OnlyKey(k) ==
    /\ DOMAIN cgtracker_map' \subseteq DOMAIN cgtracker_map \cup {k}
    /\ \A x \in DOMAIN cgtracker_map \ {k} :
           MapHas(cgtracker_map', x) /\ cgtracker_map'[x] = cgtracker_map[x]

(***************************************************************************)
(* C26.  A cgroup-mkdir event changes the tracker map at the key of the    *)
(* new cgroup only; the map is unchanged when the id of the new cgroup or  *)
(* of its parent cannot be obtained or the parent has no entry; and when   *)
(* the map is at its capacity every entry is unchanged and the new cgroup  *)
(* has no entry.                                                           *)
(***************************************************************************)
C26_MkdirFrame ==
    [][obs'.hook = "mkdir" =>
          /\ OnlyKey(obs'.cgid)
          /\ (obs'.fault \in MkdirFaults
                \/ ~MapHas(cgtracker_map, cgroup_get_parent_id(obs'.cgid)))
             => cgtracker_map' = cgtracker_map
          /\ Cardinality(DOMAIN cgtracker_map) >= TrackerMapCapacity
             => (cgtracker_map' = cgtracker_map /\ ~MapHas(cgtracker_map', obs'.cgid))]_vars

\* a cgroup was created below a tracked parent while the map was full, after
\* another cgroup was created that has no entry either
C26_Witness ==
    /\ obs.hook = "mkdir" /\ obs.exit = "full"
    /\ MapHas(cgtracker_map, CgParent(obs.cgid))
    /\ ~MapHas(cgtracker_map, obs.cgid)
    /\ Cardinality(DOMAIN cgtracker_map) = TrackerMapCapacity
    /\ \E c \in CgIds : c # obs.cgid /\ c > 3 /\ cgroups[c] = "live"
                           /\ ~MapHas(cgtracker_map, c)

(***************************************************************************)
(* Handlers of different cgroups interleave: a mkdir handler is torn       *)
(* between its lookup and its update while release handlers, other mkdir   *)
(* handlers, userspace and the gate run.  The mkdir and the release of one *)
(* cgroup are serialised: a cgroup is released once its mkdir is over.     *)
(***************************************************************************)
NextRace ==
    \/ \E c \in CgIds : tg_cgtracker_cgroup_mkdir_lookup(c)
    \/ tg_cgtracker_cgroup_mkdir_update
    \/ \E c \in CgIds : tg_cgtracker_cgroup_mkdir(c)
    \/ \E c \in CgIds : tg_cgtracker_cgroup_release(c)
    \/ \E c \in {2, 3} : user_track(c)
    \/ \E c \in {4, 5} : enforce_cgroup_policy(0, c, 5, "none", FALSE)
    \/ user_consume

SpecRace == InitTracker /\ [][NextRace]_vars

C28_RaceBenign ==
    /\ \A c \in DOMAIN inherited :
           MapHas(cgtracker_map, c) => cgtracker_map[c] = inherited[c].tracker
    /\ GateRan /\ obs.cgid \in DOMAIN inherited
           => obs.tid \in {obs.cgid, inherited[obs.cgid].tracker}

====
